---------------------------- MODULE Spec2Model ----------------------------
(***************************************************************************)
(* A model of src/components/FileUploader.tsx: the drop handler (onDrop    *)
(* with getAllFileEntries, readAllDirectoryEntries, readEntriesPromise),   *)
(* the file-input handler (input onChange) and formatFileSize.             *)
(*                                                                         *)
(* Strings are sequences of one-character strings, so that split and       *)
(* replace are computed character by character.  Each handler invocation   *)
(* owns its locals (queue, fileEntries, items, i), so invocations do not   *)
(* interact; one invocation is followed at a time, and a new event may     *)
(* arrive once the followed invocation has ended, failed or hung.          *)
(***************************************************************************)
EXTENDS Integers, Sequences, FiniteSets, TLC

(***************************************************************************)
(* Bounds of the model.                                                    *)
(***************************************************************************)
\* most items in one drop (dataTransfer.items) or one selection (target.files)
MaxItems == 2
\* most children one readEntries call hands back
MaxBatch == 2
\* formatFileSize inputs are m * 10^e, m in 0..MaxMantissa, e in 0..MaxExp
MaxMantissa == 129
MaxExp == 12

(***************************************************************************)
(* String literals of the source, as character sequences.                  *)
(***************************************************************************)
S_image == <<"i","m","a","g","e">>
S_video == <<"v","i","d","e","o">>
S_audio == <<"a","u","d","i","o">>
S_text == <<"t","e","x","t">>
S_pdf == <<"p","d","f">>
S_other == <<"o","t","h","e","r">>
S_application_pdf == <<"a","p","p","l","i","c","a","t","i","o","n","/","p","d","f">>
S_octet_stream == <<"a","p","p","l","i","c","a","t","i","o","n","/","o","c","t","e","t","-","s","t","r","e","a","m">>
S_folder_folder == <<"f","o","l","d","e","r","/","f","o","l","d","e","r">>
S_slash == <<"/">>
S_empty == <<>>
\* MIME types of the files on the modelled disk
S_image_png == <<"i","m","a","g","e","/","p","n","g">>
S_text_plain == <<"t","e","x","t","/","p","l","a","i","n">>

\* the fileType prop's union type
FileTypes == {S_image, S_video, S_audio, S_text, S_pdf, S_other}
\* the maxSize prop: -1 (no limit) or a limit in bytes
MaxSizes == {-1, 1000000}

(***************************************************************************)
(* The directory tree the user drags from or selects in.  ROOT is the      *)
(* directory shown in the file manager; its children (or the children of   *)
(* any directory below it) are what one gesture can pick up.               *)
(*   ROOT: X (image/png, 500)  Y/  a/  q (application/pdf, 10)             *)
(*   Y/  : Z (image/png, 2000000)                                          *)
(*   a/  : a (application/pdf, 999999)  ab/                                *)
(*   ab/ : b (text/plain, 1000000)  e/  u (no type, 0)                     *)
(*   e/  : (empty)                                                         *)
(***************************************************************************)
NodeIds == {"X", "Y", "Z", "A", "A2", "AB", "B", "E", "U", "Q"}
DirIds == {"ROOT", "Y", "A", "AB", "E"}

NodeName(n) ==
    CASE n = "X" -> <<"X">> [] n = "Y" -> <<"Y">> [] n = "Z" -> <<"Z">>
      [] n = "A" -> <<"a">> [] n = "A2" -> <<"a">> [] n = "AB" -> <<"a","b">>
      [] n = "B" -> <<"b">> [] n = "E" -> <<"e">> [] n = "U" -> <<"u">>
      [] n = "Q" -> <<"q">>

NodeChildren(n) ==
    CASE n = "ROOT" -> <<"X", "Y", "A", "Q">>
      [] n = "Y" -> <<"Z">>
      [] n = "A" -> <<"A2", "AB">>
      [] n = "AB" -> <<"B", "E", "U">>
      [] OTHER -> <<>>

\* File.size
NodeSize(n) ==
    CASE n = "X" -> 500 [] n = "Z" -> 2000000 [] n = "A2" -> 999999
      [] n = "B" -> 1000000 [] n = "U" -> 0 [] n = "Q" -> 10

\* File.type
NodeType(n) ==
    CASE n \in {"X", "Z"} -> S_image_png
      [] n \in {"A2", "Q"} -> S_application_pdf
      [] n = "B" -> S_text_plain
      [] n = "U" -> S_empty

(***************************************************************************)
(* FileSystemEntry values.  A DataTransferItem that is not a file (a       *)
(* dragged string) gives null from webkitGetAsEntry.                       *)
(***************************************************************************)
NullEntry == [node |-> "null", fullPath |-> S_empty]
IsNull(entry) == entry.node = "null"
IsFile(entry) == ~IsNull(entry) /\ entry.node \notin DirIds
IsDirectory(entry) == ~IsNull(entry) /\ entry.node \in DirIds

TopEntry(n) == IF n = "null" THEN NullEntry
               ELSE [node |-> n, fullPath |-> S_slash \o NodeName(n)]
ChildEntry(dir, n) == [node |-> n, fullPath |-> dir.fullPath \o S_slash \o NodeName(n)]

SeqRange(s) == {s[k] : k \in 1..Len(s)}
MinOf(S) == CHOOSE x \in S : \A y \in S : x <= y
SeqsUpTo(S, n) == UNION {[1..k -> S] : k \in 0..n}
NoRepeat(s) == \A j, k \in 1..Len(s) : (j # k /\ s[j] # "null") => s[j] # s[k]

\* What one drop can carry: up to MaxItems items, each a child of one
\* directory or a non-file item, no child twice.
Payloads ==
    UNION {{s \in SeqsUpTo(SeqRange(NodeChildren(d)) \cup {"null"}, MaxItems) : NoRepeat(s)}
           : d \in DirIds}
\* What one dialog selection can carry: files of one directory, none twice.
Selections ==
    UNION {{s \in SeqsUpTo({n \in SeqRange(NodeChildren(d)) : n \notin DirIds}, MaxItems)
              : NoRepeat(s)} : d \in DirIds}

(***************************************************************************)
(* Pure functions of the source.                                           *)
(***************************************************************************)
\* s.split("/")[0]
SplitFirst(s) ==
    LET hits == {k \in 1..Len(s) : s[k] = "/"}
    IN IF hits = {} THEN s ELSE SubSeq(s, 1, MinOf(hits) - 1)

\* s.replace(pat, ""): the first occurrence of pat is removed
ReplaceFirst(s, pat) ==
    LET hits == {k \in 1..(Len(s) - Len(pat) + 1) : SubSeq(s, k, k + Len(pat) - 1) = pat}
    IN IF hits = {} THEN s
       ELSE SubSeq(s, 1, MinOf(hits) - 1) \o SubSeq(s, MinOf(hits) + Len(pat), Len(s))

\* reader.result: the data URL of the file's bytes
DataURL(n) == <<"data:", NodeType(n), ";base64,", n>>

(***************************************************************************)
(* State.                                                                  *)
(***************************************************************************)
VARIABLES
    maxSize, fileType,      \* the props
    handler,                \* "none", "drop" (onDrop) or "change" (input onChange)
    pc,                     \* where the followed invocation stands
    queue,                  \* getAllFileEntries: queue
    files, i,               \* input onChange: e.target.files and the loop index
    fileEntries,            \* getAllFileEntries: fileEntries; input onChange: items
    inflight,               \* the FileReaders that are reading, oldest first
    dirReader,              \* the directoryReader being drained and what it has left
    entries,                \* readAllDirectoryEntries: entries
    startCalls, endCalls,   \* calls of onUploadStart and onUploadEnd by this invocation
    delivered,              \* the argument of onUploadEnd
    event,                  \* history: the items of the event that started the invocation
    order,                  \* history: the entries in the order the loop took them
    origin,                 \* history: origin[k] is the entry fileEntries[k] was made from
    readLog,                \* history: the files in the order their reads started
    loaded,                 \* history: the files whose reader fired onload
    listings,               \* history: what readAllDirectoryEntries returned, per directory
    failed,                 \* history: "no", or the failure that hit the invocation
    failSnap,               \* history: fileEntries and readLog when a file's read failed
    bytes, shown            \* formatFileSize: its argument (decimal digits) and its result

uploadVars == <<maxSize, fileType, handler, pc, queue, files, i, fileEntries, inflight,
                dirReader, entries, startCalls, endCalls, delivered, event, order,
                origin, readLog, loaded, listings, failed, failSnap>>
fmtVars == <<bytes, shown>>
vars == <<uploadVars, fmtVars>>

NoReader == [dir |-> NullEntry, left |-> <<>>]
NoSnap == [fileEntries |-> <<>>, readLog |-> <<>>]
Ended == {"idle", "returned", "done", "aborted", "hung"}
Running == {"loop", "reading", "listing"}

(***************************************************************************)
(* The handlers' conditions and steps, as operators.                       *)
(***************************************************************************)
\* Accept with the size test admitting a file of exactly maxSize bytes
AcceptAtMost(size, type) ==
    /\ (maxSize = -1 \/ size <= maxSize)
    /\ \/ SplitFirst(type) = fileType
       \/ (type = S_application_pdf /\ fileType = S_pdf)
       \/ fileType = S_other

\* the checks in reader.onload, both handlers
Accept(size, type) ==
    /\ (maxSize = -1 \/ size < maxSize)
    /\ \/ SplitFirst(type) = fileType
       \/ (type = S_application_pdf /\ fileType = S_pdf)
       \/ fileType = S_other

\* the object pushed for a file by getAllFileEntries
DropFileEntry(entry) ==
    [path |-> ReplaceFirst(entry.fullPath, NodeName(entry.node)),
     type |-> "file",
     name |-> NodeName(entry.node),
     mimeType |-> IF NodeType(entry.node) = S_empty THEN S_octet_stream
                  ELSE NodeType(entry.node),
     data |-> DataURL(entry.node)]

\* the object pushed for a file by input onChange
DialogFileEntry(entry) ==
    [path |-> S_slash,
     type |-> "file",
     name |-> NodeName(entry.node),
     mimeType |-> IF NodeType(entry.node) = S_empty THEN S_octet_stream
                  ELSE NodeType(entry.node),
     data |-> DataURL(entry.node)]

\* the object pushed for a directory
FolderEntry(entry) ==
    [path |-> ReplaceFirst(entry.fullPath, NodeName(entry.node)),
     type |-> "folder",
     name |-> NodeName(entry.node),
     mimeType |-> S_folder_folder,
     data |-> S_empty]

\* PushFolder with directories put through the type filter
PushFolderFiltered(list, entry) ==
    IF fileType = S_other THEN Append(list, FolderEntry(entry)) ELSE list

\* fileEntries after the directory branch's push
PushFolder(list, entry) == Append(list, FolderEntry(entry))

\* DropGate without the test
DropGateAlways(items) == TRUE

\* e.dataTransfer.files.length > 0: the files and directories among the items
DropGate(items) == Cardinality({k \in 1..Len(items) : items[k] # "null"}) > 0
\* e.target.files && e.target.files.length > 0
ChangeGate(sel) == Len(sel) > 0

\* Shift taking the last element (pop)
ShiftLast(q) == [entry |-> q[Len(q)], rest |-> SubSeq(q, 1, Len(q) - 1)]
\* Enqueue putting the children at the head (unshift)
EnqueueFront(q, children) == children \o q
\* Accumulate keeping only the latest batch (assignment for push)
AccumulateLast(acc, batch) == batch
\* AfterReadStart without the await: the loop goes on
AfterReadStartNoAwait == "loop"
\* OnReject with the rejection caught and the file skipped
OnRejectCaught == "loop"

\* queue.shift()
Shift(q) == [entry |-> Head(q), rest |-> Tail(q)]
\* queue.push(...children)
Enqueue(q, children) == q \o children
\* readAllDirectoryEntries: while (readEntries.length > 0)
WhileCond(batch) == Len(batch) > 0
\* readAllDirectoryEntries: entries.push(...readEntries)
Accumulate(acc, batch) == acc \o batch
\* await new Promise(...): the loop is suspended until the promise settles
AfterReadStart == "reading"
\* reader.onerror = reject, caught nowhere: the handler's promise rejects
OnReject == "aborted"

RemoveAt(s, k) == SubSeq(s, 1, k - 1) \o SubSeq(s, k + 1, Len(s))

(***************************************************************************)
(* The component after construction: props set, no event handled yet.      *)
(***************************************************************************)
UploadInit ==
    /\ maxSize \in MaxSizes
    /\ fileType \in FileTypes
    /\ handler = "none"
    /\ pc = "idle"
    /\ queue = <<>>
    /\ files = <<>>
    /\ i = 0
    /\ fileEntries = <<>>
    /\ inflight = <<>>
    /\ dirReader = NoReader
    /\ entries = <<>>
    /\ startCalls = 0
    /\ endCalls = 0
    /\ delivered = <<>>
    /\ event = <<>>
    /\ order = <<>>
    /\ origin = <<>>
    /\ readLog = <<>>
    /\ loaded = {}
    /\ listings = <<>>
    /\ failed = "no"
    /\ failSnap = NoSnap

\* formatFileSize has not been called
Unset == [num |-> [whole |-> 0, tenth |-> -1], unit |-> "unset"]

Init == UploadInit /\ bytes = <<0>> /\ shown = Unset

\* a handler invocation starts with fresh locals
FreshLocals ==
    /\ i' = 0
    /\ fileEntries' = <<>>
    /\ inflight' = <<>>
    /\ dirReader' = NoReader
    /\ entries' = <<>>
    /\ endCalls' = 0
    /\ delivered' = <<>>
    /\ order' = <<>>
    /\ origin' = <<>>
    /\ readLog' = <<>>
    /\ loaded' = {}
    /\ listings' = <<>>
    /\ failed' = "no"
    /\ failSnap' = NoSnap

(***************************************************************************)
(* onDrop, to its first await: the gate, onUploadStart, and the seeding of *)
(* the queue from dataTransfer.items.                                      *)
(***************************************************************************)
OnDrop(items) ==
    /\ pc \in Ended
    /\ handler' = "drop"
    /\ event' = items
    /\ FreshLocals
    /\ files' = <<>>
    /\ IF DropGate(items)
       THEN /\ startCalls' = 1
            /\ queue' = [k \in 1..Len(items) |-> TopEntry(items[k])]
            /\ pc' = "loop"
       ELSE /\ startCalls' = 0
            /\ queue' = <<>>
            /\ pc' = "returned"
    /\ UNCHANGED <<maxSize, fileType, fmtVars>>

(***************************************************************************)
(* input onChange, to its first await.                                     *)
(***************************************************************************)
OnChange(sel) ==
    /\ pc \in Ended
    /\ handler' = "change"
    /\ event' = sel
    /\ FreshLocals
    /\ queue' = <<>>
    /\ IF ChangeGate(sel)
       THEN /\ startCalls' = 1
            /\ files' = [k \in 1..Len(sel) |-> [node |-> sel[k], fullPath |-> S_empty]]
            /\ pc' = "loop"
       ELSE /\ startCalls' = 0
            /\ files' = <<>>
            /\ pc' = "returned"
    /\ UNCHANGED <<maxSize, fileType, fmtVars>>

(***************************************************************************)
(* getAllFileEntries: one turn of while (queue.length > 0).                *)
(***************************************************************************)
\* the file branch: entry.file(cb) delivers the File and readAsDataURL starts
LoopFile ==
    /\ handler = "drop" /\ pc = "loop" /\ queue # <<>>
    /\ IsFile(Shift(queue).entry)
    /\ queue' = Shift(queue).rest
    /\ order' = Append(order, Shift(queue).entry)
    /\ inflight' = Append(inflight, Shift(queue).entry)
    /\ readLog' = Append(readLog, Shift(queue).entry)
    /\ pc' = AfterReadStart
    /\ UNCHANGED <<maxSize, fileType, handler, files, i, fileEntries, dirReader, entries,
                   startCalls, endCalls, delivered, event, origin, loaded, listings,
                   failed, failSnap, fmtVars>>

\* the file branch when entry.file fails: it was given no error callback, so the
\* promise never settles
LoopFileNoHandle ==
    /\ handler = "drop" /\ pc = "loop" /\ queue # <<>>
    /\ IsFile(Shift(queue).entry)
    /\ queue' = Shift(queue).rest
    /\ order' = Append(order, Shift(queue).entry)
    /\ pc' = "hung"
    /\ failed' = "handle"
    /\ failSnap' = [fileEntries |-> fileEntries, readLog |-> readLog]
    /\ UNCHANGED <<maxSize, fileType, handler, files, i, fileEntries, inflight, dirReader,
                   entries, startCalls, endCalls, delivered, event, origin, readLog,
                   loaded, listings, fmtVars>>

\* the directory branch, to the first readEntries call
LoopDirectory ==
    /\ handler = "drop" /\ pc = "loop" /\ queue # <<>>
    /\ IsDirectory(Shift(queue).entry)
    /\ LET entry == Shift(queue).entry
           kids == NodeChildren(entry.node)
       IN /\ queue' = Shift(queue).rest
          /\ order' = Append(order, entry)
          /\ fileEntries' = PushFolder(fileEntries, entry)
          /\ origin' = IF Len(PushFolder(fileEntries, entry)) > Len(fileEntries)
                       THEN Append(origin, entry) ELSE origin
          /\ dirReader' = [dir |-> entry,
                           left |-> [k \in 1..Len(kids) |-> ChildEntry(entry, kids[k])]]
          /\ entries' = <<>>
          /\ pc' = "listing"
    /\ UNCHANGED <<maxSize, fileType, handler, files, i, inflight, startCalls, endCalls,
                   delivered, event, readLog, loaded, listings, failed, failSnap, fmtVars>>

\* neither branch: the entry is null
LoopSkip ==
    /\ handler = "drop" /\ pc = "loop" /\ queue # <<>>
    /\ IsNull(Shift(queue).entry)
    /\ queue' = Shift(queue).rest
    /\ order' = Append(order, Shift(queue).entry)
    /\ UNCHANGED <<maxSize, fileType, handler, pc, files, i, fileEntries, inflight,
                   dirReader, entries, startCalls, endCalls, delivered, event, origin,
                   readLog, loaded, listings, failed, failSnap, fmtVars>>

(***************************************************************************)
(* readAllDirectoryEntries with readEntriesPromise: one readEntries call   *)
(* answers with the next n children the reader has left, an empty answer   *)
(* exactly when nothing is left.                                           *)
(***************************************************************************)
ReadEntriesResolve(n) ==
    /\ pc = "listing"
    /\ n <= Len(dirReader.left)
    /\ (n = 0) <=> (dirReader.left = <<>>)
    /\ LET batch == SubSeq(dirReader.left, 1, n)
       IN IF WhileCond(batch)
          THEN /\ entries' = Accumulate(entries, batch)
               /\ dirReader' = [dirReader EXCEPT !.left = SubSeq(@, n + 1, Len(@))]
               /\ UNCHANGED <<queue, listings, pc>>
          ELSE /\ queue' = Enqueue(queue, entries)
               /\ listings' = Append(listings, [dir |-> dirReader.dir, result |-> entries])
               /\ dirReader' = NoReader
               /\ entries' = <<>>
               /\ pc' = "loop"
    /\ UNCHANGED <<maxSize, fileType, handler, files, i, fileEntries, inflight, startCalls,
                   endCalls, delivered, event, order, origin, readLog, loaded, failed,
                   failSnap, fmtVars>>

\* readEntries fails: readEntriesPromise logs and returns undefined, and
\* readEntries.length throws, which nothing catches
ReadEntriesError ==
    /\ pc = "listing"
    /\ pc' = "aborted"
    /\ failed' = "listing"
    /\ UNCHANGED <<maxSize, fileType, handler, queue, files, i, fileEntries, inflight,
                   dirReader, entries, startCalls, endCalls, delivered, event, order,
                   origin, readLog, loaded, listings, failSnap, fmtVars>>

(***************************************************************************)
(* input onChange: one turn of the for loop, to its await.                 *)
(***************************************************************************)
DialogRead ==
    /\ handler = "change" /\ pc = "loop" /\ i < Len(files)
    /\ inflight' = Append(inflight, files[i + 1])
    /\ readLog' = Append(readLog, files[i + 1])
    /\ order' = Append(order, files[i + 1])
    /\ pc' = AfterReadStart
    /\ UNCHANGED <<maxSize, fileType, handler, queue, files, i, fileEntries, dirReader,
                   entries, startCalls, endCalls, delivered, event, origin, loaded,
                   listings, failed, failSnap, fmtVars>>

(***************************************************************************)
(* reader.onload of the k-th reading FileReader: the checks, the push, and *)
(* resolve(0), which resumes the loop that awaits it.                      *)
(***************************************************************************)
ReaderOnLoad(k) ==
    /\ k \in 1..Len(inflight)
    /\ LET entry == inflight[k]
           made == IF handler = "drop" THEN DropFileEntry(entry)
                   ELSE DialogFileEntry(entry)
       IN /\ IF Accept(NodeSize(entry.node), NodeType(entry.node))
             THEN /\ fileEntries' = Append(fileEntries, made)
                  /\ origin' = Append(origin, entry)
             ELSE UNCHANGED <<fileEntries, origin>>
          /\ loaded' = loaded \cup {entry}
    /\ inflight' = RemoveAt(inflight, k)
    /\ i' = IF handler = "change" THEN i + 1 ELSE i
    /\ pc' = IF pc = "reading" THEN "loop" ELSE pc
    /\ UNCHANGED <<maxSize, fileType, handler, queue, files, dirReader, entries,
                   startCalls, endCalls, delivered, event, order, readLog, listings,
                   failed, failSnap, fmtVars>>

\* reader.onerror of the k-th reading FileReader: reject
ReaderOnError(k) ==
    /\ k \in 1..Len(inflight)
    /\ inflight' = RemoveAt(inflight, k)
    /\ failed' = "read"
    /\ failSnap' = [fileEntries |-> fileEntries, readLog |-> readLog]
    /\ pc' = IF pc = "reading" THEN OnReject ELSE pc
    /\ UNCHANGED <<maxSize, fileType, handler, queue, files, i, fileEntries, dirReader,
                   entries, startCalls, endCalls, delivered, event, order, origin,
                   readLog, loaded, listings, fmtVars>>

(***************************************************************************)
(* The loop ends: getAllFileEntries returns fileEntries and onDrop calls   *)
(* onUploadEnd(items); input onChange calls onUploadEnd(items).            *)
(***************************************************************************)
LoopExit ==
    /\ pc = "loop"
    /\ \/ handler = "drop" /\ queue = <<>>
       \/ handler = "change" /\ i >= Len(files)
    /\ endCalls' = endCalls + 1
    /\ delivered' = fileEntries
    /\ pc' = "done"
    /\ UNCHANGED <<maxSize, fileType, handler, queue, files, i, fileEntries, inflight,
                   dirReader, entries, startCalls, event, order, origin, readLog,
                   loaded, listings, failed, failSnap, fmtVars>>

\* what the event loop and the platform do once an event has been taken
Progress ==
    \/ LoopFile
    \/ LoopFileNoHandle
    \/ LoopDirectory
    \/ LoopSkip
    \/ \E n \in 0..MaxBatch : ReadEntriesResolve(n)
    \/ ReadEntriesError
    \/ DialogRead
    \/ \E k \in 1..MaxItems : ReaderOnLoad(k)
    \/ \E k \in 1..MaxItems : ReaderOnError(k)
    \/ LoopExit

Next ==
    \/ \E items \in Payloads : OnDrop(items)
    \/ \E sel \in Selections : OnChange(sel)
    \/ Progress

Spec == Init /\ [][Next]_vars

\* The event loop runs every continuation that is ready, and a FileReader or a
\* directory reader always answers, with a result or an error.
FairSpec == Spec /\ WF_vars(Progress)

(***************************************************************************)
(* formatFileSize.  A byte count can reach 10^12 and more, so it is kept   *)
(* as its decimal digits, most significant first, without leading zeros    *)
(* (0 is <<0>>).  Comparing with 10^k is then a test of the length, and    *)
(* dividing by 10^k a shift of the decimal point.                          *)
(***************************************************************************)
\* bytes >= 1000000000000, and the divisor 100000000000 of that branch
TB_THRESHOLD_EXP == 12
TB_DIVISOR_EXP == 11
\* bytes >= 1000000000, and the divisor 100000000 of that branch
GB_THRESHOLD_EXP == 9
GB_DIVISOR_EXP == 8
\* bytes >= 1000000, and the divisor 1000000 of that branch
MB_THRESHOLD_EXP == 6
MB_DIVISOR_EXP == 6
\* bytes >= 1000, and the divisor 1000 of that branch
KB_THRESHOLD_EXP == 3
KB_DIVISOR_EXP == 3

RECURSIVE DigitsOf(_)
DigitsOf(m) == IF m < 10 THEN <<m>> ELSE Append(DigitsOf(m \div 10), m % 10)
RECURSIVE ValueOf(_)
ValueOf(d) == IF d = <<>> THEN 0 ELSE 10 * ValueOf(SubSeq(d, 1, Len(d) - 1)) + d[Len(d)]
Zeros(e) == [k \in 1..e |-> 0]

\* the byte counts formatFileSize is tried on
FmtInputs ==
    {<<0>>} \cup {DigitsOf(m) \o Zeros(e) : m \in 1..MaxMantissa, e \in 0..MaxExp}

\* d >= 10^k
AtLeastPow10(d, k) == Len(d) > k

\* (d / 10^k).toFixed(1), for d >= 10^k, as [whole, tenth]: the quotient to the
\* nearest tenth.  When the quotient lies exactly between two tenths, the
\* double that stands for it may lie on either side, and tieUp says which.
ToFixed1(d, k, tieUp) ==
    LET n == Len(d)
        kept == ValueOf(SubSeq(d, 1, n - k + 1))
        rest == SubSeq(d, n - k + 2, n)
        up == /\ rest # <<>>
              /\ \/ rest[1] > 5
                 \/ /\ rest[1] = 5
                    /\ \/ \E j \in 2..Len(rest) : rest[j] # 0
                       \/ tieUp
        tenths == IF up THEN kept + 1 ELSE kept
    IN [whole |-> tenths \div 10, tenth |-> tenths % 10]

\* the result string: the number, its decimal (-1: it has none), the unit
formatFileSize(d, tieUp) ==
    IF AtLeastPow10(d, TB_THRESHOLD_EXP)
    THEN [num |-> ToFixed1(d, TB_DIVISOR_EXP, tieUp), unit |-> " TB"]
    ELSE IF AtLeastPow10(d, GB_THRESHOLD_EXP)
    THEN [num |-> ToFixed1(d, GB_DIVISOR_EXP, tieUp), unit |-> " GB"]
    ELSE IF AtLeastPow10(d, MB_THRESHOLD_EXP)
    THEN [num |-> ToFixed1(d, MB_DIVISOR_EXP, tieUp), unit |-> " MB"]
    ELSE IF AtLeastPow10(d, KB_THRESHOLD_EXP)
    THEN [num |-> ToFixed1(d, KB_DIVISOR_EXP, tieUp), unit |-> " KB"]
    ELSE IF ValueOf(d) > 1
    THEN [num |-> [whole |-> ValueOf(d), tenth |-> -1], unit |-> " bytes"]
    ELSE IF ValueOf(d) = 1
    THEN [num |-> [whole |-> ValueOf(d), tenth |-> -1], unit |-> " byte"]
    ELSE [num |-> [whole |-> 0, tenth |-> -1], unit |-> " GB"]

\* the render's call of formatFileSize
FormatSize(tieUp) ==
    /\ shown = Unset
    /\ shown' = formatFileSize(bytes, tieUp)
    /\ UNCHANGED <<bytes, uploadVars>>

FmtInit ==
    /\ UploadInit
    /\ maxSize = -1
    /\ fileType = S_other
    /\ bytes \in FmtInputs
    /\ shown = Unset

FmtNext == \E tieUp \in BOOLEAN : FormatSize(tieUp)

FmtSpec == FmtInit /\ [][FmtNext]_vars

(***************************************************************************)
(* The claims.                                                             *)
(***************************************************************************)
IsFolderRecord(x) == x.type = "folder"
Depth(entry) == Cardinality({k \in 1..Len(entry.fullPath) : entry.fullPath[k] = "/"}) - 1
IsPrefix(p, s) == Len(p) <= Len(s) /\ SubSeq(s, 1, Len(p)) = p
Count(s, x) == Cardinality({k \in 1..Len(s) : s[k] = x})
RECURSIVE Subtree(_)
Subtree(entry) ==
    IF IsNull(entry) THEN {}
    ELSE {entry} \cup UNION {Subtree(ChildEntry(entry, c)) : c \in SeqRange(NodeChildren(entry.node))}

\* the claim's acceptance test of a file, written from its words
C1_Passes(n) ==
    /\ (maxSize = -1 \/ NodeSize(n) < maxSize)
    /\ \/ SplitFirst(NodeType(n)) = fileType
       \/ (NodeType(n) = S_application_pdf /\ fileType = S_pdf)
       \/ fileType = S_other
C1_HasEntry(list, n) ==
    \E k \in 1..Len(list) :
        list[k].type = "file" /\ list[k].name = NodeName(n) /\ list[k].data = DataURL(n)

\* C1: on the drop path and on the dialog path, a file whose read succeeded has a
\* File entry in the list given to onUploadEnd exactly when (maxSize is -1 or its
\* size is strictly below maxSize) and (the part of its MIME type before "/" is
\* fileType, or it is application/pdf under fileType "pdf", or fileType is "other").
C1_FilterDecidesEntry ==
    pc = "done" =>
        \A e \in loaded : C1_HasEntry(delivered, e.node) <=> C1_Passes(e.node)

\* a delivered list with a file kept, and a file of exactly maxSize bytes left out
C1_Witness ==
    /\ pc = "done"
    /\ \E e1, e2 \in loaded :
        /\ NodeSize(e1.node) = maxSize /\ ~C1_HasEntry(delivered, e1.node)
        /\ C1_HasEntry(delivered, e2.node)

\* C2: when a drop traversal has run to completion, the delivered list holds
\* exactly one Folder entry per directory met, in the order met, each of type
\* "folder", mimeType "folder/folder" and empty data, whatever maxSize and fileType.
C2_OneFolderPerDirectory ==
    (pc = "done" /\ handler = "drop") =>
        LET folders == SelectSeq(delivered, IsFolderRecord)
            dirs == SelectSeq(order, IsDirectory)
        IN /\ Len(folders) = Len(dirs)
           /\ \A k \in 1..Len(dirs) :
                /\ folders[k].name = NodeName(dirs[k].node)
                /\ folders[k].mimeType = S_folder_folder
                /\ folders[k].data = S_empty

\* a completed traversal of three directories under a size limit and a type filter
C2_Witness ==
    /\ pc = "done" /\ handler = "drop"
    /\ maxSize # -1 /\ fileType # S_other
    /\ Len(SelectSeq(order, IsDirectory)) >= 3

\* whether the event carried a file (or directory), from the event alone
C3_HasFiles ==
    IF handler = "drop" THEN \E k \in 1..Len(event) : event[k] # "null"
    ELSE event # <<>>
C3_AllQueued ==
    IF handler = "drop"
    THEN UNION {Subtree(TopEntry(event[k])) : k \in 1..Len(event)}
    ELSE {[node |-> event[k], fullPath |-> S_empty] : k \in 1..Len(event)}
C3_Safety ==
    /\ (handler # "none" /\ C3_HasFiles) => startCalls = 1
    /\ startCalls = 0 => readLog = <<>>
    /\ endCalls <= 1
    /\ endCalls = 1 =>
        /\ pc = "done" /\ failed = "no"
        /\ inflight = <<>>
        /\ {order[k] : k \in 1..Len(order)} \ {NullEntry} = C3_AllQueued
        /\ delivered = fileEntries
    /\ pc = "done" => endCalls = 1
    /\ (handler # "none" /\ ~C3_HasFiles) => (startCalls = 0 /\ endCalls = 0)

\* C3: per drop or selection, when a file was dropped or selected onUploadStart is
\* called exactly once, before any read starts, and unless a file read or a
\* directory listing fails onUploadEnd is eventually called, exactly once, after
\* every queued item has been processed, with the complete list; when nothing was
\* dropped or selected neither callback is called.
C3_StartOnceEndOnce ==
    /\ []C3_Safety
    /\ (pc \in Running) ~> (pc = "done" \/ failed # "no")

\* onUploadEnd called after a traversal of files and directories
C3_Witness ==
    /\ pc = "done" /\ endCalls = 1 /\ startCalls = 1
    /\ handler = "drop" /\ Len(order) >= 4 /\ readLog # <<>>

\* C4: the list of a drop traversal is in breadth-first order: entries appear in
\* the order their items were dequeued, a directory's Folder entry precedes the
\* entries of all its descendants, and an entry at depth d precedes every entry
\* at depth d+1.
C4_BreadthFirst ==
    handler = "drop" =>
        /\ Len(origin) = Len(fileEntries)
        /\ \A k \in 1..Len(origin) : fileEntries[k].name = NodeName(origin[k].node)
        /\ \A j, k \in 1..Len(origin) :
            /\ j < k => \E a, b \in 1..Len(order) :
                            a < b /\ order[a] = origin[j] /\ order[b] = origin[k]
            /\ (IsDirectory(origin[j])
                  /\ IsPrefix(origin[j].fullPath \o S_slash, origin[k].fullPath)) => j < k
            /\ Depth(origin[k]) = Depth(origin[j]) + 1 => j < k
        /\ pc = "done" => delivered = fileEntries

\* a delivered list with entries at three depths, whose first top-level item
\* is a directory followed by a top-level file
C4_Witness ==
    /\ pc = "done" /\ handler = "drop"
    /\ Len(event) >= 2 /\ event[1] \in DirIds /\ event[2] \notin DirIds \cup {"null"}
    /\ \E j, k, l \in 1..Len(origin) :
        /\ Depth(origin[j]) = 0 /\ Depth(origin[k]) = 1 /\ Depth(origin[l]) = 2
        /\ origin[j].node = event[2]

\* the drop [fileX, folderY{fileZ}] under maxSize 1000000 and fileType "image"
C5_Scenario ==
    /\ handler = "drop" /\ pc = "done"
    /\ event = <<"X", "Y">>
    /\ maxSize = 1000000 /\ fileType = S_image
C5_FileX ==
    [path |-> <<"/">>, type |-> "file", name |-> <<"X">>, mimeType |-> S_image_png,
     data |-> <<"data:", S_image_png, ";base64,", "X">>]
C5_FolderY ==
    [path |-> <<"/">>, type |-> "folder", name |-> <<"Y">>, mimeType |-> S_folder_folder,
     data |-> <<>>]

\* C5 as amended: for the drop [fileX (image/png, 500), folderY{fileZ (image/png,
\* 2000000)}] with maxSize 1000000 and fileType "image", the delivered list is
\* [File entry X, Folder entry Y], in that order, with no entry for fileZ.
C5_FileThenFolder == C5_Scenario => delivered = <<C5_FileX, C5_FolderY>>

\* C5 as stated: the delivered list is [Folder entry Y, File entry X]
C5_AsStated == C5_Scenario => delivered = <<C5_FolderY, C5_FileX>>

\* the scenario run to its end, both files read
C5_Witness == C5_Scenario /\ Cardinality(loaded) = 2

\* C6: readAllDirectoryEntries returns every child of the directory exactly once,
\* however the reader splits them into batches, and when the traversal completes
\* each child has been taken from the queue exactly once.
C6_DrainsEveryChildOnce ==
    \A k \in 1..Len(listings) :
        LET dir == listings[k].dir
            kids == NodeChildren(dir.node)
        IN /\ Len(listings[k].result) = Len(kids)
           /\ \A c \in 1..Len(kids) :
                /\ Count(listings[k].result, ChildEntry(dir, kids[c])) = 1
                /\ pc = "done" => Count(order, ChildEntry(dir, kids[c])) = 1

\* a completed traversal in which some directory's children took several batches
C6_Witness ==
    /\ pc = "done"
    /\ \E k \in 1..Len(listings) : Len(listings[k].result) > MaxBatch

\* C7: when a file's read fails, nothing queued after it is read or appended,
\* onUploadEnd is not called although onUploadStart was, and the entries gathered
\* before the failure are not delivered.
C7_ReadFailureAborts ==
    failed \in {"read", "handle"} =>
        /\ pc = (IF failed = "read" THEN "aborted" ELSE "hung")
        /\ startCalls = 1 /\ endCalls = 0 /\ delivered = <<>>
        /\ fileEntries = failSnap.fileEntries
        /\ readLog = failSnap.readLog

\* a failed read with entries gathered before it and items still queued after it
C7_Witness ==
    /\ failed = "read" /\ handler = "drop"
    /\ fileEntries # <<>> /\ queue # <<>>

\* fullPath without its own trailing name segment
C8_Parent(entry) == SubSeq(entry.fullPath, 1, Len(entry.fullPath) - Len(NodeName(entry.node)))

\* C8: every entry of a drop traversal has as path its fullPath with only its own
\* trailing name segment removed ("/" at top level), and every entry of the
\* dialog path has path "/".
C8_PathIsParent ==
    \A k \in 1..Len(fileEntries) :
        IF handler = "drop" THEN fileEntries[k].path = C8_Parent(origin[k])
        ELSE fileEntries[k].path = S_slash

\* the format the claim describes: GB, MB and KB divide by their own threshold,
\* TB by 10^11
C9_Claimed(d, tieUp) ==
    IF AtLeastPow10(d, 12) THEN [num |-> ToFixed1(d, 11, tieUp), unit |-> " TB"]
    ELSE IF AtLeastPow10(d, 9) THEN [num |-> ToFixed1(d, 9, tieUp), unit |-> " GB"]
    ELSE IF AtLeastPow10(d, 6) THEN [num |-> ToFixed1(d, 6, tieUp), unit |-> " MB"]
    ELSE IF AtLeastPow10(d, 3) THEN [num |-> ToFixed1(d, 3, tieUp), unit |-> " KB"]
    ELSE IF d = <<1>> THEN [num |-> [whole |-> 1, tenth |-> -1], unit |-> " byte"]
    ELSE IF d = <<0>> THEN [num |-> [whole |-> 0, tenth |-> -1], unit |-> " GB"]
    ELSE [num |-> [whole |-> ValueOf(d), tenth |-> -1], unit |-> " bytes"]

\* C9: formatFileSize picks the unit by the thresholds 10^12, 10^9, 10^6, 10^3, and
\* in the GB, MB and KB branches shows the byte count divided by the branch's own
\* threshold to one decimal place; only the TB branch divides by 10^11.
C9_DividesByThreshold ==
    shown # Unset => shown \in {C9_Claimed(bytes, TRUE), C9_Claimed(bytes, FALSE)}

\* C10: within one traversal or selection at most one file read is in flight, and
\* reads start in queue order (selection order on the dialog path).
C10_ReadsSerialized ==
    /\ Len(inflight) <= 1
    /\ pc = "reading" <=> Len(inflight) = 1
    /\ IF handler = "change" THEN IsPrefix(readLog, files)
       ELSE IsPrefix(readLog, SelectSeq(order, IsFile))

\* the second read of an invocation in flight, the first having settled
C10_Witness ==
    /\ Len(readLog) >= 2 /\ Len(inflight) = 1
    /\ inflight[1] = readLog[Len(readLog)]

====
